---- MODULE Spec2Model ----
(***************************************************************************)
(* HierarchyNode (src/src/index.ts): a node of an in-memory hierarchy.     *)
(*                                                                         *)
(* The heap of HierarchyNode objects is modelled by three functions over   *)
(* node references 1..MaxNodes: internalId, parentId and children.  Every  *)
(* method is an operator over these functions, computed the way the method *)
(* body computes it, and every public call is one action that records the  *)
(* call and its return value in `last`.                                    *)
(*                                                                         *)
(* The recursive methods carry no visited set.  They terminate only on a   *)
(* structure without a cycle, so the caller of the model attaches a node   *)
(* only where that closes no cycle (NoCycle).  Attaching one node under    *)
(* several parents, or several times under one parent, is not rejected by  *)
(* the class and is part of the model.  SpecFresh is the caller that hands *)
(* over only nodes never attached before, wherever it likes: there addNode *)
(* may close a cycle, and the recursive methods are called only while the  *)
(* structure has none.                                                     *)
(***************************************************************************)
EXTENDS Integers, Sequences, FiniteSets

\* Bounds of the model: the nodes constructed and the calls that change the
\* structure (addNode, addNodeToNode, removeNodeById), where those calls are
\* recorded (Spec) and where the structure they build is read (SpecRead).
MaxNodes == 3
MaxCalls == 4
MaxReadNodes == 4
MaxReadCalls == 3

VARIABLES count, internalId, parentId, children, calls, last

vars == <<count, internalId, parentId, children, calls, last>>

\* The node references of the heap.
Nodes == 1..(IF MaxNodes > MaxReadNodes THEN MaxNodes ELSE MaxReadNodes)

\* The node references constructed so far.
Live == 1..count

\* `null` as a node reference, and as an id.
null == 0
nullId == <<>>

\* generateUniqueID: a token no earlier construction produced.  Tokens are
\* only ever compared for equality; the k-th construction's token is <<"id", k>>.
generateUniqueID(k) == <<"id", k>>

\* An id no node ever carries ("nonexistent").
AbsentId == <<"id", 0>>

\* The ids callers pass as targetId: the id of a node, or one of none.
TargetIds == {internalId[n] : n \in Live} \cup {AbsentId}

----------------------------------------------------------------------------
\* splice(i) without its count: element i and all that follow it are dropped.
SpliceFrom(s, i) == [j \in 1..(i - 1) |-> s[j]]

\* Array.prototype.splice(i, 1) on a 1-indexed sequence: drop element i.
Splice(s, i) == [j \in 1..(Len(s) - 1) |-> IF j < i THEN s[j] ELSE s[j + 1]]

RECURSIVE getNodeById(_, _, _)
RECURSIVE getNodeByIdLoop(_, _, _, _)
\* The loop returning what the first child found: return child.getNodeById(targetId).
getNodeByIdFirstChild(ch, this, i, targetId) ==
    IF i > Len(ch[this]) THEN null
    ELSE getNodeById(ch, ch[this][i], targetId)

\* for (const child of this.children) { result = child.getNodeById(targetId); if (result) return result } return null
getNodeByIdLoop(ch, this, i, targetId) ==
    IF i > Len(ch[this]) THEN null
    ELSE LET result == getNodeById(ch, ch[this][i], targetId)
         IN  IF result # null THEN result
             ELSE getNodeByIdLoop(ch, this, i + 1, targetId)

\* this.getNodeById(targetId) on the heap whose children function is ch.
getNodeById(ch, this, targetId) ==
    IF internalId[this] = targetId THEN this
    ELSE getNodeByIdLoop(ch, this, 1, targetId)

\* addNode with the child put first: this.children.unshift(node).
addNodeUnshift(ch, pid, this, node) ==
    [parentId |-> [pid EXCEPT ![node] = internalId[this]],
     children |-> [ch EXCEPT ![this] = <<node>> \o @]]

\* addNode without its first line: node.parentId is left as it was.
addNodeNoParentId(ch, pid, this, node) ==
    [parentId |-> pid,
     children |-> [ch EXCEPT ![this] = Append(@, node)]]

\* this.addNode(node): the parentId and children functions the call leaves.
addNode(ch, pid, this, node) ==
    [parentId |-> [pid EXCEPT ![node] = internalId[this]],
     children |-> [ch EXCEPT ![this] = Append(@, node)]]

RECURSIVE removeNodeById(_, _, _)
RECURSIVE removeNodeByIdLoop(_, _, _, _)
RECURSIVE removeNodeByIdShallow(_, _, _, _)
\* The loop without its else branch: only the receiver's own children are looked at.
removeNodeByIdShallow(ch, this, i, targetId) ==
    IF i > Len(ch[this]) THEN [ret |-> FALSE, children |-> ch]
    ELSE IF internalId[ch[this][i]] = targetId
         THEN [ret |-> TRUE, children |-> [ch EXCEPT ![this] = Splice(@, i)]]
         ELSE removeNodeByIdShallow(ch, this, i + 1, targetId)

RECURSIVE removeNodeByIdDeep(_, _, _, _)
\* The second pass of removeNodeByIdChildrenFirst: each child's subtree in turn.
removeNodeByIdDeep(ch, this, i, targetId) ==
    IF i > Len(ch[this]) THEN [ret |-> FALSE, children |-> ch]
    ELSE LET r == removeNodeById(ch, ch[this][i], targetId)
         IN  IF r.ret THEN r
             ELSE removeNodeByIdDeep(r.children, this, i + 1, targetId)

\* removeNodeById in two passes: all the receiver's children first, and their
\* subtrees only when none of them matches.
removeNodeByIdChildrenFirst(ch, this, i, targetId) ==
    LET r == removeNodeByIdShallow(ch, this, i, targetId)
    IN  IF r.ret THEN r ELSE removeNodeByIdDeep(ch, this, i, targetId)

\* The for loop of removeNodeById from index i on; the result is the return
\* value and the children function the call leaves behind.
removeNodeByIdLoop(ch, this, i, targetId) ==
    IF i > Len(ch[this]) THEN [ret |-> FALSE, children |-> ch]
    ELSE IF internalId[ch[this][i]] = targetId
         THEN [ret |-> TRUE, children |-> [ch EXCEPT ![this] = Splice(@, i)]]
         ELSE LET r == removeNodeById(ch, ch[this][i], targetId)
              IN  IF r.ret THEN r
                  ELSE removeNodeByIdLoop(r.children, this, i + 1, targetId)

\* removeNodeById with the receiver tested first, as getNodeById tests it.
removeNodeByIdSelf(ch, this, targetId) ==
    IF internalId[this] = targetId THEN [ret |-> TRUE, children |-> ch]
    ELSE removeNodeByIdLoop(ch, this, 1, targetId)

\* this.removeNodeById(targetId)
removeNodeById(ch, this, targetId) == removeNodeByIdLoop(ch, this, 1, targetId)

\* addNodeToNode adding to the receiver, not to the node it found.
addNodeToNodeThis(ch, pid, this, targetId, child) ==
    LET parent == getNodeById(ch, this, targetId)
    IN  IF parent # null
        THEN LET r == addNode(ch, pid, this, child)
             IN  [ret |-> TRUE, parentId |-> r.parentId, children |-> r.children]
        ELSE [ret |-> FALSE, parentId |-> pid, children |-> ch]

\* this.addNodeToNode(targetId, child)
addNodeToNode(ch, pid, this, targetId, child) ==
    LET parent == getNodeById(ch, this, targetId)
    IN  IF parent # null
        THEN LET r == addNode(ch, pid, parent, child)
             IN  [ret |-> TRUE, parentId |-> r.parentId, children |-> r.children]
        ELSE [ret |-> FALSE, parentId |-> pid, children |-> ch]

\* The callbacks callers pass: total functions of (node, params) that change
\* no node, told apart by the value they return.
Callbacks == {"returnsFalse", "returnsTrue"}
Params == {"params"}
callback(name, node, params) == name = "returnsTrue"

\* this.runCustomFunction(callback, params): return callback(this, params).
\* `invoked` lists the invocations of the callback the call made.
runCustomFunction(this, name, params) ==
    [ret |-> callback(name, this, params),
     invoked |-> <<[node |-> this, params |-> params]>>]

\* runFunctionOnNode returning what the callback returned.
runFunctionOnNodeResult(ch, this, targetId, name, params) ==
    LET target == getNodeById(ch, this, targetId)
    IN  IF target # null
        THEN runCustomFunction(target, name, params)
        ELSE [ret |-> FALSE, invoked |-> <<>>]

\* this.runFunctionOnNode(targetId, callback, params)
runFunctionOnNode(ch, this, targetId, name, params) ==
    LET target == getNodeById(ch, this, targetId)
    IN  IF target # null
        THEN [ret |-> TRUE, invoked |-> runCustomFunction(target, name, params).invoked]
        ELSE [ret |-> FALSE, invoked |-> <<>>]

\* this.getParentNodeId(targetId): target && target.parentId ? target.parentId : null
getParentNodeId(ch, pid, this, targetId) ==
    LET target == getNodeById(ch, this, targetId)
    IN  IF target # null /\ pid[target] # nullId THEN pid[target] ELSE nullId

\* The reducers callers pass to traverse: (count, _node) => count + 1, and
\* (list, node) => [...list, node].
Reducers == {"count", "collect"}
reducer(name, accumulator, node) ==
    IF name = "count" THEN accumulator + 1 ELSE Append(accumulator, node)
initialValue(name) == IF name = "count" THEN 0 ELSE <<>>

RECURSIVE traverse(_, _, _, _)
RECURSIVE traverseLoop(_, _, _, _, _)
\* for (const child of this.children) accumulator = child.traverse(reducer, accumulator)
traverseLoop(ch, this, i, name, accumulator) ==
    IF i > Len(ch[this]) THEN accumulator
    ELSE traverseLoop(ch, this, i + 1, name,
                      traverse(ch, ch[this][i], name, accumulator))

\* traverse with the reducer applied to the receiver after its children.
traversePostOrder(ch, this, name, init) ==
    reducer(name, traverseLoop(ch, this, 1, name, init), this)

\* this.traverse(reducer, initialValue)
traverse(ch, this, name, init) ==
    traverseLoop(ch, this, 1, name, reducer(name, init, this))

----------------------------------------------------------------------------
\* The elements of a sequence.
Range(s) == {s[i] : i \in 1..Len(s)}

\* The least set that holds S and the children of each of its nodes.
RECURSIVE Closure(_, _)
Closure(ch, S) ==
    LET T == S \cup UNION {Range(ch[n]) : n \in S}
    IN  IF T = S THEN S ELSE Closure(ch, T)

\* The subtree of n (n and its descendants), and its descendants alone.
Subtree(ch, n) == Closure(ch, {n})
Descendants(ch, n) == Closure(ch, Range(ch[n]))

\* Attaching node under parent closes no cycle: the recursive methods end
\* only on a structure that has none.
NoCycle(parent, node) == parent \notin Subtree(children, node)

\* The record of a call: the method, its receiver and arguments, the value
\* it returned and the callback invocations it made.
Call(op, this, targetId, node, arg, ret, invoked) ==
    [op |-> op, this |-> this, targetId |-> targetId, node |-> node,
     arg |-> arg, ret |-> ret, invoked |-> invoked]

NoCall == Call("none", null, nullId, null, "", FALSE, <<>>)

ReadOps == {"getNodeById", "getParentNodeId", "runFunctionOnNode", "traverse"}

----------------------------------------------------------------------------
Init ==
    /\ count = 0
    /\ internalId = [n \in Nodes |-> nullId]
    /\ parentId = [n \in Nodes |-> nullId]
    /\ children = [n \in Nodes |-> <<>>]
    /\ calls = 0
    /\ last = NoCall

\* new HierarchyNode(metadata), while fewer than `limit` nodes exist.
Construct(limit) ==
    /\ count < limit
    /\ count' = count + 1
    /\ internalId' = [internalId EXCEPT ![count + 1] = generateUniqueID(count + 1)]
    /\ parentId' = [parentId EXCEPT ![count + 1] = nullId]
    /\ children' = [children EXCEPT ![count + 1] = <<>>]
    /\ last' = Call("new", count + 1, nullId, null, "", FALSE, <<>>)
    /\ UNCHANGED calls

\* A call that changes the structure leaves the functions r holds; `call`
\* is its record when the call is recorded, and NoCall otherwise.
Mutate(r, recorded, call) ==
    /\ calls' = calls + 1
    /\ parentId' = r.parentId
    /\ children' = r.children
    /\ last' = IF recorded THEN call ELSE NoCall
    /\ UNCHANGED <<count, internalId>>

\* The calls a behaviour may make.
Budget(recorded) == IF recorded THEN MaxCalls ELSE MaxReadCalls

DoAddNode(this, node, recorded) ==
    /\ calls < Budget(recorded)
    /\ NoCycle(this, node)
    /\ Mutate(addNode(children, parentId, this, node), recorded,
              Call("addNode", this, nullId, node, "", FALSE, <<>>))

DoRemoveNodeById(this, targetId, recorded) ==
    /\ calls < Budget(recorded)
    /\ LET r == removeNodeById(children, this, targetId)
       IN  Mutate([parentId |-> parentId, children |-> r.children], recorded,
                  Call("removeNodeById", this, targetId, null, "", r.ret, <<>>))

DoAddNodeToNode(this, targetId, child, recorded) ==
    /\ calls < Budget(recorded)
    /\ LET r == addNodeToNode(children, parentId, this, targetId, child)
       IN  /\ r.ret => NoCycle(getNodeById(children, this, targetId), child)
           /\ Mutate(r, recorded,
                     Call("addNodeToNode", this, targetId, child, "", r.ret, <<>>))

AddNode(this, node) == DoAddNode(this, node, TRUE)

RemoveNodeById(this, targetId) == DoRemoveNodeById(this, targetId, TRUE)

AddNodeToNode(this, targetId, child) == DoAddNodeToNode(this, targetId, child, TRUE)

\* The calls that change the structure, each recorded in `last`.
Next ==
    \/ Construct(MaxNodes)
    \/ \E this \in Live, node \in Live : AddNode(this, node)
    \/ \E this \in Live, targetId \in TargetIds : RemoveNodeById(this, targetId)
    \/ \E this \in Live, targetId \in TargetIds, child \in Live :
          AddNodeToNode(this, targetId, child)

Spec == Init /\ [][Next]_vars

----------------------------------------------------------------------------
\* The calls that read the structure.
GetNodeById(this, targetId) ==
    /\ last' = Call("getNodeById", this, targetId, null, "",
                    getNodeById(children, this, targetId), <<>>)
    /\ UNCHANGED <<count, internalId, parentId, children, calls>>

GetParentNodeId(this, targetId) ==
    /\ last' = Call("getParentNodeId", this, targetId, null, "",
                    getParentNodeId(children, parentId, this, targetId), <<>>)
    /\ UNCHANGED <<count, internalId, parentId, children, calls>>

RunFunctionOnNode(this, targetId, name, params) ==
    LET r == runFunctionOnNode(children, this, targetId, name, params)
    IN  /\ last' = Call("runFunctionOnNode", this, targetId, null,
                        <<name, params>>, r.ret, r.invoked)
        /\ UNCHANGED <<count, internalId, parentId, children, calls>>

Traverse(this, name) ==
    /\ last' = Call("traverse", this, nullId, null, name,
                    traverse(children, this, name, initialValue(name)), <<>>)
    /\ UNCHANGED <<count, internalId, parentId, children, calls>>

\* The structure is built by the calls of Next, unrecorded, and then read.
Arrange ==
    \/ \E this \in Live, node \in Live : DoAddNode(this, node, FALSE)
    \/ \E this \in Live, targetId \in TargetIds :
          DoRemoveNodeById(this, targetId, FALSE)
    \/ \E this \in Live, targetId \in TargetIds, child \in Live :
          DoAddNodeToNode(this, targetId, child, FALSE)

\* A read changes nothing, so what may follow it is what may follow the state
\* it read: a behaviour of SpecRead ends with its first read.
Unread == last.op \notin ReadOps

NextRead ==
    \/ Unread /\ Construct(MaxReadNodes)
    \/ Unread /\ Arrange
    \/ \E this \in Live, targetId \in TargetIds :
          Unread /\ GetNodeById(this, targetId)
    \/ \E this \in Live, targetId \in TargetIds :
          Unread /\ GetParentNodeId(this, targetId)
    \/ \E this \in Live, targetId \in TargetIds, name \in Callbacks, params \in Params :
          Unread /\ RunFunctionOnNode(this, targetId, name, params)
    \/ \E this \in Live, name \in Reducers :
          Unread /\ Traverse(this, name)

SpecRead == Init /\ [][NextRead]_vars

----------------------------------------------------------------------------
\* No node is its own descendant.
Acyclic(ch) == \A n \in Nodes : n \notin Descendants(ch, n)

\* The caller that hands addNode and addNodeToNode only nodes that were never
\* attached before.  addNode never clears parentId and removeNodeById leaves
\* it, so these are the nodes whose parentId is still null.
Fresh(node) == parentId[node] = nullId

FreshAddNode(this, node) ==
    /\ calls < MaxCalls
    /\ Fresh(node)
    /\ Mutate(addNode(children, parentId, this, node), TRUE,
              Call("addNode", this, nullId, node, "", FALSE, <<>>))

FreshAddNodeToNode(this, targetId, child) ==
    /\ calls < MaxCalls
    /\ Acyclic(children)
    /\ Fresh(child)
    /\ LET r == addNodeToNode(children, parentId, this, targetId, child)
       IN  Mutate(r, TRUE,
                  Call("addNodeToNode", this, targetId, child, "", r.ret, <<>>))

FreshRemoveNodeById(this, targetId) ==
    /\ calls < MaxCalls
    /\ Acyclic(children)
    /\ LET r == removeNodeById(children, this, targetId)
       IN  Mutate([parentId |-> parentId, children |-> r.children], TRUE,
                  Call("removeNodeById", this, targetId, null, "", r.ret, <<>>))

NextFresh ==
    \/ Construct(MaxNodes)
    \/ \E this \in Live, node \in Live : FreshAddNode(this, node)
    \/ \E this \in Live, targetId \in TargetIds : FreshRemoveNodeById(this, targetId)
    \/ \E this \in Live, targetId \in TargetIds, child \in Live :
          FreshAddNodeToNode(this, targetId, child)

SpecFresh == Init /\ [][NextFresh]_vars

----------------------------------------------------------------------------
\* Notions the properties below are stated with.

\* The ids of the nodes of S.
Ids(S) == {internalId[n] : n \in S}

\* The node that carries id (ids are unique).
NodeOf(id) == CHOOSE n \in Live : internalId[n] = id

\* The places of the structure below r where n is attached.
Places(ch, r, n) ==
    UNION {{<<p, i>> : i \in {j \in 1..Len(ch[p]) : ch[p][j] = n}} : p \in Subtree(ch, r)}

\* The structure below r is a tree: r is attached nowhere in it and every
\* other node of it at exactly one place.
IsTree(ch, r) ==
    \A n \in Subtree(ch, r) :
        Cardinality(Places(ch, r, n)) = IF n = r THEN 0 ELSE 1

----------------------------------------------------------------------------
\* C1: after parent.addNode(child), child.parentId is parent.internalId, child
\* is the last element of parent.children, the elements that were there before
\* are still there in the same order, and parent.getNodeById(child.internalId)
\* returns child.
C1_AddNode ==
    [][last'.op = "addNode" =>
        LET parent == last'.this
            child == last'.node
            n == Len(children[parent])
        IN  /\ parentId'[child] = internalId[parent]
            /\ Len(children'[parent]) = n + 1
            /\ children'[parent][n + 1] = child
            /\ SubSeq(children'[parent], 1, n) = children[parent]
            /\ getNodeById(children', parent, internalId[child]) = child]_vars

\* C1's case: a child was added to a parent that already had children.
C1_Witness ==
    /\ last.op = "addNode"
    /\ Len(children[last.this]) >= 2
    /\ children[last.this][Len(children[last.this])] = last.node
    /\ parentId[last.node] = internalId[last.this]

\* C2 as stated: in a tree, removeNodeById of the id of any node of the
\* receiver's subtree (the receiver included) returns true, after which
\* getNodeById finds neither that node nor any of its descendants.
C2_RemovePresent_Original ==
    [][(/\ last'.op = "removeNodeById"
        /\ IsTree(children, last'.this)
        /\ last'.targetId \in Ids(Subtree(children, last'.this))) =>
        /\ last'.ret = TRUE
        /\ \A d \in Subtree(children, NodeOf(last'.targetId)) :
              getNodeById(children', last'.this, internalId[d]) = null]_vars

\* C2, amended: in a tree, removeNodeById of the id of any proper descendant
\* of the receiver returns true, after which getNodeById on the receiver
\* finds neither that node nor any of its descendants.
C2_RemovePresent ==
    [][(/\ last'.op = "removeNodeById"
        /\ IsTree(children, last'.this)
        /\ last'.targetId \in Ids(Descendants(children, last'.this))) =>
        /\ last'.ret = TRUE
        /\ \A d \in Subtree(children, NodeOf(last'.targetId)) :
              getNodeById(children', last'.this, internalId[d]) = null]_vars

\* C2's case: a node that has children of its own was removed from below the
\* receiver, which no longer finds it.
C2_Witness ==
    /\ last.op = "removeNodeById"
    /\ last.ret = TRUE
    /\ children[NodeOf(last.targetId)] # <<>>
    /\ NodeOf(last.targetId) \notin Subtree(children, last.this)
    /\ IsTree(children, last.this)

\* C3: removeNodeById returns false whenever targetId is not the id of a
\* proper descendant of the receiver (an absent id, the receiver's own id),
\* and then every node's children and parentId are what they were.
C3_RemoveAbsent ==
    [][(/\ last'.op = "removeNodeById"
        /\ last'.targetId \notin Ids(Descendants(children, last'.this))) =>
        /\ last'.ret = FALSE
        /\ children' = children
        /\ parentId' = parentId]_vars

\* C3's case: a receiver that has children was asked to remove its own id.
C3_Witness ==
    /\ last.op = "removeNodeById"
    /\ last.ret = FALSE
    /\ last.targetId = internalId[last.this]
    /\ children[last.this] # <<>>

\* s without its element i.
Without(s, i) == SubSeq(s, 1, i - 1) \o SubSeq(s, i + 1, Len(s))

\* The least element of a non-empty set of numbers.
Min(S) == CHOOSE i \in S : \A j \in S : i <= j

\* The indices of the children of `this` that carry targetId.
Matches(this, targetId) ==
    {i \in 1..Len(children[this]) : internalId[children[this][i]] = targetId}

\* The indices before i of the children of `this` that have a node carrying
\* targetId below them.
Earlier(this, i, targetId) ==
    {j \in 1..(i - 1) : targetId \in Ids(Descendants(children, children[this][j]))}

\* The first index at which s holds n.
Position(s, n) == Min({i \in 1..Len(s) : s[i] = n})

----------------------------------------------------------------------------
\* C4: traverse applies the reducer to every node of the subtree rooted at
\* the receiver exactly once, in depth-first pre-order (a node before all its
\* descendants, siblings in children order, one child's whole subtree before
\* the next sibling), threading the accumulator through the calls; with the
\* counting reducer and 0 it returns the number of nodes of the subtree.
C4_TraversePreOrder ==
    last.op = "traverse" =>
        LET this == last.this
            ch == children
            nodes == Subtree(ch, this)
        IN  IF last.arg = "count"
            THEN IsTree(ch, this) => last.ret = Cardinality(nodes)
            ELSE /\ last.ret[1] = this
                 /\ Range(last.ret) = nodes
                 /\ IsTree(ch, this) =>
                      /\ Len(last.ret) = Cardinality(nodes)
                      /\ \A n \in nodes : \A d \in Descendants(ch, n) :
                            Position(last.ret, n) < Position(last.ret, d)
                      /\ \A n \in nodes : \A i, j \in 1..Len(ch[n]) :
                            i < j => \A d \in Subtree(ch, ch[n][i]) :
                               Position(last.ret, d) < Position(last.ret, ch[n][j])

\* C4's case: a tree was traversed whose root has two children, the first of
\* them with a child of its own.
C4_Witness ==
    /\ last.op = "traverse"
    /\ last.arg = "collect"
    /\ IsTree(children, last.this)
    /\ Len(children[last.this]) = 2
    /\ children[children[last.this][1]] # <<>>
    /\ Len(last.ret) = 4

\* C5: getNodeById returns the first node, in the order in which traverse
\* visits nodes, whose internalId is targetId, and null exactly when traverse
\* visits no such node; a node without children returns itself for its own
\* id; the call changes no node's children or parentId.
C5_GetNodeById ==
    [][last'.op = "getNodeById" =>
        LET this == last'.this
            visited == traverse(children, this, "collect", <<>>)
            hits == {i \in 1..Len(visited) : internalId[visited[i]] = last'.targetId}
        IN  /\ last'.ret = IF hits = {} THEN null ELSE visited[Min(hits)]
            /\ (children[this] = <<>> /\ last'.targetId = internalId[this])
                  => last'.ret = this
            /\ children' = children
            /\ parentId' = parentId]_vars

\* C5's case: the node found is a second child's child.
C5_Witness ==
    /\ last.op = "getNodeById"
    /\ last.ret # null
    /\ Len(children[last.this]) = 2
    /\ last.ret \in Range(children[children[last.this][2]])
    /\ last.ret \notin Subtree(children, children[last.this][1])

\* C6: addNodeToNode returns false and changes no node's children or parentId
\* when no node of the receiver's subtree carries targetId; otherwise it
\* returns true and has exactly the effect of addNode(child) on the node
\* getNodeById(targetId) returns: child is appended to that node's children
\* and child.parentId is targetId.
C6_AddNodeToNode ==
    [][last'.op = "addNodeToNode" =>
        LET this == last'.this
            targetId == last'.targetId
            child == last'.node
        IN  IF targetId \notin Ids(Subtree(children, this))
            THEN /\ last'.ret = FALSE
                 /\ children' = children
                 /\ parentId' = parentId
            ELSE LET parent == getNodeById(children, this, targetId)
                     r == addNode(children, parentId, parent, child)
                 IN  /\ last'.ret = TRUE
                     /\ children' = r.children
                     /\ parentId' = r.parentId
                     /\ children' = [children EXCEPT ![parent] = Append(@, child)]
                     /\ parentId' = [parentId EXCEPT ![child] = targetId]]_vars

\* C6's case: a child was added through the receiver to a node below it that
\* already had a child.
C6_Witness ==
    /\ last.op = "addNodeToNode"
    /\ last.ret = TRUE
    /\ last.targetId # internalId[last.this]
    /\ Len(children[NodeOf(last.targetId)]) = 2
    /\ children[NodeOf(last.targetId)][2] = last.node
    /\ parentId[last.node] = last.targetId

\* C7: getParentNodeId returns null when no node of the receiver's subtree
\* carries targetId or the node found has no recorded parent, and otherwise
\* the id of the node whose children sequence holds the node found; in every
\* state reached by addNode, addNodeToNode and removeNodeById calls, for every
\* receiver.
C7_GetParentNodeId ==
    last.op = "getParentNodeId" =>
        LET found == getNodeById(children, last.this, last.targetId)
        IN  IF found = null \/ parentId[found] = nullId
            THEN last.ret = nullId
            ELSE \E p \in Live : /\ internalId[p] = last.ret
                                /\ found \in Range(children[p])

\* C8: runFunctionOnNode invokes the callback exactly once, with the node
\* getNodeById(targetId) returns and with params, and returns true when a
\* node of the receiver's subtree carries targetId; when none does it returns
\* false and the callback is not invoked.  What the callback returns does not
\* affect the result.
C8_RunFunctionOnNode ==
    last.op = "runFunctionOnNode" =>
        IF last.targetId \in Ids(Subtree(children, last.this))
        THEN /\ last.ret = TRUE
             /\ last.invoked =
                   <<[node |-> getNodeById(children, last.this, last.targetId),
                      params |-> last.arg[2]]>>
        ELSE /\ last.ret = FALSE
             /\ last.invoked = <<>>

\* C8's case: the callback ran on a node below the receiver and returned
\* false, and the call returned true.
C8_Witness ==
    /\ last.op = "runFunctionOnNode"
    /\ last.arg[1] = "returnsFalse"
    /\ last.ret = TRUE
    /\ Len(last.invoked) = 1
    /\ last.invoked[1].node # last.this

C10_RemoveFrame ==
    [][(last'.op = "removeNodeById" /\ last'.ret = TRUE) =>
        \E p \in Live : \E i \in 1..Len(children[p]) :
           LET removed == children[p][i]
           IN  /\ internalId[removed] = last'.targetId
               /\ children' = [children EXCEPT ![p] = Without(@, i)]
               /\ parentId' = parentId
               /\ parentId[removed] = internalId[p] => parentId'[removed] = internalId[p]
               /\ \A d \in Subtree(children, removed) :
                     /\ children'[d] = children[d]
                     /\ parentId'[d] = parentId[d]
                     /\ getNodeById(children', removed, internalId[d]) = d]_vars

\* C10's case: the removed node is attached nowhere, still holds the id of
\* the receiver it was removed from, and still has its own child.
C10_Witness ==
    /\ last.op = "removeNodeById"
    /\ last.ret = TRUE
    /\ LET removed == NodeOf(last.targetId)
       IN  /\ \A p \in Live : removed \notin Range(children[p])
           /\ parentId[removed] = internalId[last.this]
           /\ children[removed] # <<>>
           /\ \A d \in Range(children[removed]) :
                 parentId[d] = last.targetId

----------------------------------------------------------------------------
\* The places of the whole structure where n is attached.
AllPlaces(ch, n) ==
    UNION {{<<p, i>> : i \in {j \in 1..Len(ch[p]) : ch[p][j] = n}} : p \in Nodes}

\* A forest whose parent links agree with its children sequences: every node
\* is attached at one place at most, no node is its own descendant, and every
\* child holds the id of the node whose children hold it.
WellFormed(ch, pid) ==
    /\ \A n \in Nodes : Cardinality(AllPlaces(ch, n)) <= 1
    /\ Acyclic(ch)
    /\ \A p \in Nodes : \A c \in Range(ch[p]) : pid[c] = internalId[p]

\* The node the call recorded in c attached its child to, null when it
\* attached none.
AttachedTo(c) ==
    IF c.op = "addNode" THEN c.this
    ELSE IF c.op = "addNodeToNode" /\ c.ret = TRUE THEN NodeOf(c.targetId)
    ELSE null

\* C11 as stated: if every addNode / addNodeToNode call is given a child that
\* was never attached before, then after any sequence of addNode,
\* addNodeToNode and removeNodeById calls every node occurs in at most one
\* children sequence and at most once in it, no node is its own descendant,
\* and every c in p.children has c.parentId = p.internalId.
C11_FreshForest_Original == WellFormed(children, parentId)

\* C11, amended: the structure is such a forest at the start, and a call of
\* addNode, addNodeToNode or removeNodeById on such a forest leaves such a
\* forest when the child it is given was never attached before and is
\* neither the node it is attached to nor an ancestor of that node.
C11_FreshForest ==
    /\ WellFormed(children, parentId)
    /\ [][(/\ WellFormed(children, parentId)
           /\ AttachedTo(last') # null =>
                 AttachedTo(last') \notin Subtree(children, last'.node)) =>
          WellFormed(children', parentId')]_vars

\* C11's case: nodes never attached before were attached below one another,
\* one was removed again from below a child of the receiver, and what is
\* left is a forest with a root that still has a child.
C11_Witness ==
    /\ last.op = "removeNodeById"
    /\ last.ret = TRUE
    /\ WellFormed(children, parentId)
    /\ parentId[NodeOf(last.targetId)] \notin {nullId, internalId[last.this]}
    /\ \E p \in Live : children[p] # <<>> /\ Fresh(p)
====
